---- MODULE Spec2Model ----
(***************************************************************************)
(* Model of the request orchestration of Cinematic-Storyboard              *)
(* (geminiService, the second half of src/App.tsx): credential resolution, *)
(* the withTimeout wrapper, the tiered fallback executor, the key          *)
(* validator, the plan calls and the image render call.                    *)
(*                                                                         *)
(* JavaScript strings that the code only compares or tests for truthiness  *)
(* are TLA+ strings; Undefined stands for the value undefined.  Error      *)
(* messages, which the code searches for substrings, are sequences of      *)
(* one-character strings (a character outside ASCII is written "U+XXXX").  *)
(* One macrotask of the event loop (a service response, a service error,   *)
(* a timer callback) together with the microtasks it releases is one       *)
(* action.                                                                 *)
(***************************************************************************)
EXTENDS Naturals, Sequences, FiniteSets, TLC

VARIABLES
  env,        \* process.env: the process-wide default credentials
  call,       \* the orchestrator function invoked and its arguments
  pc,         \* where the invoked function is suspended
  ai,         \* the GoogleGenAI client the call constructed
  tier,       \* generateWithFallback: index of the model being attempted
  lastError,  \* generateWithFallback: let lastError
  error,      \* generateStoryShot: the error bound by catch
  attempts,   \* every withTimeout(generateContent(..)) started, in order
  result,     \* how the invoked function completed
  subject,    \* isModelAccessError: the error it is applied to
  verdict,    \* isModelAccessError: what it returned
  state,      \* App: useState(INITIAL_STATE)
  uiError,    \* App: const [error, setError]
  keyStatus,  \* App: const [keyStatus, setKeyStatus]
  userApiKey, \* App: const [apiKey, setApiKey]
  isKeyModalOpen,  \* App: const [isKeyModalOpen, setIsKeyModalOpen]
  proAccess,  \* App: const [proAccess, setProAccess]
  checkingRef,     \* App: checkingRef.current
  localStorage,    \* localStorage item 'gemini_api_key'
  tasks,      \* the handler invocations started, each with its closure
  validatedKey,    \* history: the key whose validation last set 'valid'
  clicks      \* history: the number of user events so far

\* the variables of geminiService, of the classifier runs and of App
serviceVars == <<env, call, pc, ai, tier, lastError, error, attempts, result>>

classifierVars == <<subject, verdict>>

appVars == <<state, uiError, keyStatus, userApiKey, isKeyModalOpen, proAccess,
             checkingRef, localStorage, tasks, validatedKey, clicks>>

vars == <<serviceVars, classifierVars, appVars>>

(***************************************************************************)
(* Bounds                                                                  *)
(***************************************************************************)
MaxTiers == 3

(***************************************************************************)
(* JavaScript values                                                       *)
(***************************************************************************)
Undefined == "<undefined>"

Truthy(s) == s # Undefined /\ s # ""

Or(a, b) == IF Truthy(a) THEN a ELSE b

Error(m) == [name |-> "Error", message |-> m]

HasMessage(e) == "message" \in DOMAIN e

UndefinedValue == [name |-> "undefined"]

Pending == [state |-> "pending"]

Fulfilled(v) == [state |-> "fulfilled", value |-> v]

Rejected(e) == [state |-> "rejected", reason |-> e]

Returned(v) == [state |-> "returned", value |-> v]

Thrown(e) == [state |-> "thrown", value |-> e]

(***************************************************************************)
(* String operations on character sequences                                *)
(***************************************************************************)
Upper == <<"A","B","C","D","E","F","G","H","I","J","K","L","M",
           "N","O","P","Q","R","S","T","U","V","W","X","Y","Z">>

Lower == <<"a","b","c","d","e","f","g","h","i","j","k","l","m",
           "n","o","p","q","r","s","t","u","v","w","x","y","z">>

toLowerCaseChar(c) ==
  IF \E k \in 1..26 : Upper[k] = c
  THEN Lower[CHOOSE k \in 1..26 : Upper[k] = c]
  ELSE c

toLowerCase(s) == [k \in 1..Len(s) |-> toLowerCaseChar(s[k])]

includes(s, sub) ==
  \E k \in 0..Len(s) :
    /\ k + Len(sub) <= Len(s)
    /\ SubSeq(s, k + 1, k + Len(sub)) = sub

(***************************************************************************)
(* Constants of geminiService                                              *)
(***************************************************************************)
REQUEST_TIMEOUT_MS == 45000

VALIDATION_TIMEOUT_MS == 15000

PLAN_MODELS == <<"gemini-2.5-pro", "gemini-2.5-flash">>

IMAGE_MODELS == [pro |-> "gemini-3-pro-image-preview",
                 fallback |-> "gemini-2.5-flash-image"]

REQUEST_TIMEOUT == <<"R","E","Q","U","E","S","T","_","T","I","M","E","O","U","T">>

API_KEY_MISSING == <<"A","P","I","_","K","E","Y","_","M","I","S","S","I","N","G">>

API_KEY_INVALID == <<"A","P","I","_","K","E","Y","_","I","N","V","A","L","I","D">>

RequestedEntityWasNotFound ==
  <<"R","e","q","u","e","s","t","e","d"," ","e","n","t","i","t","y"," ",
    "w","a","s"," ","n","o","t"," ","f","o","u","n","d">>

NotFound == <<"n","o","t"," ","f","o","u","n","d">>

Permission == <<"p","e","r","m","i","s","s","i","o","n">>

Denied == <<"d","e","n","i","e","d">>

NotAuthorized == <<"n","o","t"," ","a","u","t","h","o","r","i","z","e","d">>

ImageGenerationFailed ==
  <<"U+C774","U+BBF8","U+C9C0"," ","U+C0DD","U+C131"," ","U+C2E4","U+D328">>

AIResponseFailed == <<"A","I"," ","U+C751","U+B2F5"," ","U+C2E4","U+D328">>

UpdateFailed == <<"U+C5C5","U+B370","U+C774","U+D2B8"," ","U+C2E4","U+D328">>

DEFAULT_CATEGORIES ==
  <<<<"U+C561","U+C158">>, <<"U+B4DC","U+B77C","U+B9C8">>, <<"S","F">>,
    <<"U+D310","U+D0C0","U+C9C0">>, <<"U+C77C","U+C0C1">>>>

(***************************************************************************)
(* The external service: what a request may be answered with               *)
(***************************************************************************)
CategoriesJson == "[\"noir\",\"heist\"]"

PlanJson == "{\"subject\":\"s\",\"style\":\"t\",\"resolution\":\"2K\",\"aspectRatio\":\"9:16\",\"angles\":[{\"name\":\"n\",\"prompt\":\"p\",\"promptKo\":\"k\"},{\"name\":\"m\",\"prompt\":\"q\",\"promptKo\":\"l\"}]}"

MalformedJson == "{\"subject\":"

SyntaxError ==
  [name |-> "SyntaxError",
   message |-> <<"U","n","e","x","p","e","c","t","e","d"," ","e","n","d"," ",
                 "o","f"," ","J","S","O","N"," ","i","n","p","u","t">>]

JSONParse(text) ==
  CASE text = CategoriesJson -> Returned(<<"noir", "heist">>)
    [] text = PlanJson ->
         Returned([subject |-> "s", style |-> "t", resolution |-> "2K",
                   aspectRatio |-> "9:16",
                   angles |-> <<[name |-> "n", prompt |-> "p", promptKo |-> "k"],
                                [name |-> "m", prompt |-> "q", promptKo |-> "l"]>>])
    [] OTHER -> Thrown(SyntaxError)

\* errors the SDK rejects a request with
EntityNotFoundError == Error(RequestedEntityWasNotFound \o <<".">>)

PermissionDeniedError ==
  Error(<<"P","E","R","M","I","S","S","I","O","N","_","D","E","N","I","E","D">>)

QuotaError == Error(<<"q","u","o","t","a"," ","e","x","c","e","e","d","e","d">>)

MessagelessError == [name |-> "Error"]

ServiceErrors ==
  {EntityNotFoundError, PermissionDeniedError, QuotaError, MessagelessError}

TextPart == [text |-> "caption"]

ImagePart(d) == [inlineData |-> [mimeType |-> "image/png", data |-> d]]

\* what the service may answer to the i-th request sent
Responses(i, request) ==
  LET base == [responseId |-> i, modelVersion |-> request.model]
  IN  IF "imageConfig" \in DOMAIN request.config
      THEN { base,
             base @@ [candidates |-> <<[content |-> [parts |-> <<TextPart>>]]>>],
             base @@ [candidates |-> <<[content |-> [parts |->
                <<TextPart, ImagePart("img-A"), ImagePart("img-B")>>]]>>] }
      ELSE IF "responseSchema" \in DOMAIN request.config
      THEN { base @@ [text |-> t] :
               t \in { Undefined, "", MalformedJson,
                       IF request.config.responseSchema = "ARRAY"
                       THEN CategoriesJson ELSE PlanJson } }
      ELSE { base @@ [text |-> "."] }

(***************************************************************************)
(* Credentials                                                             *)
(***************************************************************************)
Envs == [API_KEY : {Undefined, "env-key"},
         GEMINI_API_KEY : {Undefined, "gemini-env-key"}]

ApiKeyArgs == {Undefined, "", "user-key"}

resolveApiKeyPlaceholder(apiKey, e) ==
  Or(Or(Or(apiKey, e.API_KEY), e.GEMINI_API_KEY), "PLACEHOLDER_API_KEY")

resolveApiKey(apiKey, e) == Or(Or(apiKey, e.API_KEY), e.GEMINI_API_KEY)

GoogleGenAI(key) == [apiKey |-> key]

getAIUnchecked(apiKey, e) ==
  Returned(GoogleGenAI(resolveApiKey(apiKey, e)))

getAI(apiKey, e) ==
  LET resolvedKey == resolveApiKey(apiKey, e)
  IN  IF ~Truthy(resolvedKey)
      THEN Thrown(Error(API_KEY_MISSING))
      ELSE Returned(GoogleGenAI(resolvedKey))

(***************************************************************************)
(* Promises and the bounded execution wrapper                              *)
(***************************************************************************)
SettleAgain(p, q) == q

\* resolve()/reject() of a promise: only the first call has an effect
Settle(p, q) == IF p.state = "pending" THEN q ELSE p

\* ai.models.generateContent(params): the request is sent, its promise pends
generateContent(client, params) ==
  [request |-> [apiKey |-> client.apiKey] @@ params, promise |-> Pending]

withTimeoutNoTimer(inflight, ms) ==
  inflight @@ [ms |-> ms, timer |-> "cleared", wrapped |-> Pending]

\* withTimeout(promise, ms) up to its first suspension: the timer is armed
withTimeout(inflight, ms) ==
  inflight @@ [ms |-> ms, timer |-> "armed", wrapped |-> Pending]

clearTimeout(timer) == IF timer = "armed" THEN "cleared" ELSE timer

\* the setTimeout callback of withTimeout
withTimeoutOnTimer(a) ==
  [a EXCEPT !.timer = "fired",
            !.wrapped = Settle(@, Rejected(Error(REQUEST_TIMEOUT)))]

\* the .then callback of withTimeout
withTimeoutOnValue(a, value) ==
  [a EXCEPT !.promise = Fulfilled(value),
            !.timer = clearTimeout(@),
            !.wrapped = Settle(@, Fulfilled(value))]

withTimeoutOnErrorAsTimeout(a, err) ==
  [a EXCEPT !.promise = Rejected(err),
            !.timer = clearTimeout(@),
            !.wrapped = Settle(@, Rejected(Error(REQUEST_TIMEOUT)))]

\* the .catch callback of withTimeout
withTimeoutOnError(a, err) ==
  [a EXCEPT !.promise = Rejected(err),
            !.timer = clearTimeout(@),
            !.wrapped = Settle(@, Rejected(err))]

(***************************************************************************)
(* Error classification                                                    *)
(***************************************************************************)
MessageOf(e) == IF HasMessage(e) THEN e.message ELSE <<>>

isModelAccessErrorNoTimeout(e) ==
  LET message == MessageOf(e)
  IN  \/ includes(message, RequestedEntityWasNotFound)
      \/ includes(toLowerCase(message), NotFound)
      \/ includes(toLowerCase(message), Permission)
      \/ includes(toLowerCase(message), Denied)
      \/ includes(toLowerCase(message), NotAuthorized)

isModelAccessErrorCaseSensitive(e) ==
  LET message == MessageOf(e)
  IN  \/ message = REQUEST_TIMEOUT
      \/ includes(message, RequestedEntityWasNotFound)
      \/ includes(message, NotFound)
      \/ includes(message, Permission)
      \/ includes(message, Denied)
      \/ includes(message, NotAuthorized)

isModelAccessError(e) ==
  LET message == MessageOf(e)
  IN  \/ message = REQUEST_TIMEOUT
      \/ includes(message, RequestedEntityWasNotFound)
      \/ includes(toLowerCase(message), NotFound)
      \/ includes(toLowerCase(message), Permission)
      \/ includes(toLowerCase(message), Denied)
      \/ includes(toLowerCase(message), NotAuthorized)

(***************************************************************************)
(* Tiered fallback executor                                                *)
(***************************************************************************)
ModelPool == {PLAN_MODELS[1], PLAN_MODELS[2]}

\* the tier lists tried: up to MaxTiers models, no model twice in a row
TierLists ==
  { models \in UNION { [1..n -> ModelPool] : n \in 1..MaxTiers } :
      \A k \in 1..(Len(models) - 1) : models[k] # models[k + 1] }

PlanOps == {"suggestNarrativeCategories", "analyzeImageToStoryboardPlan",
            "updatePromptsWithEdits"}

\* the models argument of the generateWithFallback invocation of call c
Models(c) == IF c.op = "generateWithFallback" THEN c.models ELSE PLAN_MODELS

\* the requestFactory argument: the generateContent parameters for a model
requestFactory(c, model) ==
  IF c.op = "generateWithFallback"
  THEN [model |-> model, config |-> [candidateCount |-> 1]]
  ELSE [model |-> model,
        config |-> [responseMimeType |-> "application/json",
                    responseSchema |->
                      IF c.op = "suggestNarrativeCategories"
                      THEN "ARRAY" ELSE "OBJECT"]]

\* variants of the loop body used to test the properties below
generateWithFallbackStepKeepsGoing(models, t, last, w) ==
  IF w.state = "fulfilled" /\ t >= Len(models)
  THEN [do |-> "return", value |-> w.value, tier |-> t, lastError |-> last]
  ELSE IF w.state = "fulfilled"
  THEN [do |-> "attempt", value |-> models[t + 1], tier |-> t + 1,
        lastError |-> last]
  ELSE IF ~isModelAccessError(w.reason)
  THEN [do |-> "throw", value |-> w.reason, tier |-> t, lastError |-> w.reason]
  ELSE IF t < Len(models)
  THEN [do |-> "attempt", value |-> models[t + 1], tier |-> t + 1,
        lastError |-> w.reason]
  ELSE [do |-> "throw", value |-> w.reason, tier |-> t, lastError |-> w.reason]

generateWithFallbackStepNoRethrow(models, t, last, w) ==
  IF w.state = "fulfilled"
  THEN [do |-> "return", value |-> w.value, tier |-> t, lastError |-> last]
  ELSE IF t < Len(models)
  THEN [do |-> "attempt", value |-> models[t + 1], tier |-> t + 1,
        lastError |-> w.reason]
  ELSE [do |-> "throw", value |-> w.reason, tier |-> t, lastError |-> w.reason]

generateWithFallbackStepFirstError(models, t, last, w) ==
  LET kept == IF last = UndefinedValue /\ w.state = "rejected"
              THEN w.reason ELSE last
  IN  IF w.state = "fulfilled"
      THEN [do |-> "return", value |-> w.value, tier |-> t, lastError |-> last]
      ELSE IF ~isModelAccessError(w.reason)
      THEN [do |-> "throw", value |-> w.reason, tier |-> t, lastError |-> kept]
      ELSE IF t < Len(models)
      THEN [do |-> "attempt", value |-> models[t + 1], tier |-> t + 1,
            lastError |-> kept]
      ELSE [do |-> "throw", value |-> kept, tier |-> t, lastError |-> kept]

generateWithFallbackStepReversed(models, t, last, w) ==
  IF w.state = "fulfilled"
  THEN [do |-> "return", value |-> w.value, tier |-> t, lastError |-> last]
  ELSE IF ~isModelAccessError(w.reason)
  THEN [do |-> "throw", value |-> w.reason, tier |-> t, lastError |-> w.reason]
  ELSE IF t < Len(models)
  THEN [do |-> "attempt", value |-> models[Len(models) - t], tier |-> t + 1,
        lastError |-> w.reason]
  ELSE [do |-> "throw", value |-> w.reason, tier |-> t, lastError |-> w.reason]

\* One turn of the for loop, resumed when the awaited withTimeout promise w
\* of tier t has settled: what the function does next.
generateWithFallbackStep(models, t, last, w) ==
  IF w.state = "fulfilled"
  THEN [do |-> "return", value |-> w.value, tier |-> t, lastError |-> last]
  ELSE IF ~isModelAccessError(w.reason)
  THEN [do |-> "throw", value |-> w.reason, tier |-> t, lastError |-> w.reason]
  ELSE IF t < Len(models)
  THEN [do |-> "attempt", value |-> models[t + 1], tier |-> t + 1,
        lastError |-> w.reason]
  ELSE [do |-> "throw", value |-> w.reason, tier |-> t, lastError |-> w.reason]

planResultEmptyThrows(c, completion) ==
  IF completion.state = "thrown" \/ c.op = "generateWithFallback"
  THEN completion
  ELSE LET text == completion.value.text
       IN  IF Truthy(text) THEN JSONParse(text)
           ELSE CASE c.op = "updatePromptsWithEdits" ->
                       Thrown(Error(UpdateFailed))
                  [] OTHER -> Thrown(Error(AIResponseFailed))

planResultEmptyParsed(c, completion) ==
  IF completion.state = "thrown" \/ c.op = "generateWithFallback"
  THEN completion
  ELSE JSONParse(completion.value.text)

\* The caller of generateWithFallback, resumed with its completion
planResult(c, completion) ==
  IF completion.state = "thrown" \/ c.op = "generateWithFallback"
  THEN completion
  ELSE LET text == completion.value.text
       IN  IF Truthy(text) THEN JSONParse(text)
           ELSE CASE c.op = "suggestNarrativeCategories" ->
                       Returned(DEFAULT_CATEGORIES)
                  [] c.op = "analyzeImageToStoryboardPlan" ->
                       Thrown(Error(AIResponseFailed))
                  [] c.op = "updatePromptsWithEdits" ->
                       Thrown(Error(UpdateFailed))

(***************************************************************************)
(* Key validator                                                           *)
(***************************************************************************)
probeParams(model) == [model |-> model, config |-> [maxOutputTokens |-> 1]]

Invalid == [valid |-> FALSE, proAvailable |-> FALSE]

\* the outer catch of validateApiKey: log the error, report the key invalid
validateApiKeyCatch(e) == [do |-> "return", value |-> Invalid]

\* variants of validateApiKey used to test the properties below
validateApiKeyStepProUnreported(p, w) ==
  IF p = "validateApiKey:pro"
  THEN IF w.state = "fulfilled"
       THEN [do |-> "return", value |-> [valid |-> TRUE, proAvailable |-> FALSE]]
       ELSE IF ~isModelAccessError(w.reason)
       THEN validateApiKeyCatch(w.reason)
       ELSE [do |-> "attempt", value |-> probeParams(PLAN_MODELS[2])]
  ELSE IF w.state = "fulfilled"
       THEN [do |-> "return", value |-> [valid |-> TRUE, proAvailable |-> FALSE]]
       ELSE validateApiKeyCatch(w.reason)

validateApiKeyStepNoFallback(p, w) ==
  IF w.state = "fulfilled"
  THEN [do |-> "return",
        value |-> [valid |-> TRUE, proAvailable |-> p = "validateApiKey:pro"]]
  ELSE validateApiKeyCatch(w.reason)

validateApiKeyStepNoRethrow(p, w) ==
  IF p = "validateApiKey:pro"
  THEN IF w.state = "fulfilled"
       THEN [do |-> "return", value |-> [valid |-> TRUE, proAvailable |-> TRUE]]
       ELSE [do |-> "attempt", value |-> probeParams(PLAN_MODELS[2])]
  ELSE IF w.state = "fulfilled"
       THEN [do |-> "return", value |-> [valid |-> TRUE, proAvailable |-> FALSE]]
       ELSE validateApiKeyCatch(w.reason)

validateApiKeyStepUncaught(p, w) ==
  IF p = "validateApiKey:pro"
  THEN IF w.state = "fulfilled"
       THEN [do |-> "return", value |-> [valid |-> TRUE, proAvailable |-> TRUE]]
       ELSE IF ~isModelAccessError(w.reason)
       THEN validateApiKeyCatch(w.reason)
       ELSE [do |-> "attempt", value |-> probeParams(PLAN_MODELS[2])]
  ELSE IF w.state = "fulfilled"
       THEN [do |-> "return", value |-> [valid |-> TRUE, proAvailable |-> FALSE]]
       ELSE [do |-> "throw", value |-> w.reason]

\* validateApiKey resumed at position p with the settled probe w
validateApiKeyStep(p, w) ==
  IF p = "validateApiKey:pro"
  THEN IF w.state = "fulfilled"
       THEN [do |-> "return", value |-> [valid |-> TRUE, proAvailable |-> TRUE]]
       ELSE IF ~isModelAccessError(w.reason)
       THEN validateApiKeyCatch(w.reason)
       ELSE [do |-> "attempt", value |-> probeParams(PLAN_MODELS[2])]
  ELSE IF w.state = "fulfilled"
       THEN [do |-> "return", value |-> [valid |-> TRUE, proAvailable |-> FALSE]]
       ELSE validateApiKeyCatch(w.reason)

(***************************************************************************)
(* Image render                                                            *)
(***************************************************************************)
ShotConfigs == { [aspectRatio |-> "9:16", resolution |-> "2K"],
                 [aspectRatio |-> "", resolution |-> ""] }

shotParams(c) ==
  [model |-> IF c.isPro THEN IMAGE_MODELS.pro ELSE IMAGE_MODELS.fallback,
   config |-> [imageConfig |->
     [aspectRatio |-> Or(c.config.aspectRatio, "16:9"),
      imageSize |-> IF c.isPro THEN Or(c.config.resolution, "1K")
                    ELSE Undefined]]]

fallbackParamsWithSize(c) ==
  [model |-> IMAGE_MODELS.fallback,
   config |-> [imageConfig |->
     [aspectRatio |-> Or(c.config.aspectRatio, "16:9"),
      imageSize |-> Or(c.config.resolution, "1K")]]]

fallbackParams(c) ==
  [model |-> IMAGE_MODELS.fallback,
   config |-> [imageConfig |->
     [aspectRatio |-> Or(c.config.aspectRatio, "16:9")]]]

\* response.candidates?.[0]?.content?.parts || []
Parts(response) ==
  IF "candidates" \in DOMAIN response /\ Len(response.candidates) > 0
  THEN response.candidates[1].content.parts
  ELSE <<>>

\* the for loop over the parts: the data URL of the first inline image
InlineImages(parts) ==
  SelectSeq(parts, LAMBDA part : "inlineData" \in DOMAIN part)

DataUrl(part) == <<"data:image/png;base64,", part.inlineData.data>>

\* the two statements that end the catch block
shotClassify(e) ==
  IF HasMessage(e) /\ includes(e.message, RequestedEntityWasNotFound)
  THEN Error(API_KEY_INVALID)
  ELSE e

\* variants of generateStoryShot used to test the properties below
generateStoryShotStepAlwaysFallback(c, p, caught, w) ==
  IF p = "generateStoryShot:try"
  THEN IF w.state = "fulfilled"
       THEN IF InlineImages(Parts(w.value)) # <<>>
            THEN [do |-> "return",
                  value |-> DataUrl(Head(InlineImages(Parts(w.value)))),
                  error |-> caught]
            ELSE [do |-> "throw", value |-> Error(ImageGenerationFailed),
                  error |-> caught]
       ELSE IF isModelAccessError(w.reason)
               \/ MessageOf(w.reason) = REQUEST_TIMEOUT
       THEN [do |-> "attempt", value |-> fallbackParams(c), error |-> w.reason]
       ELSE [do |-> "throw", value |-> shotClassify(w.reason),
             error |-> w.reason]
  ELSE IF w.state = "fulfilled"
       THEN IF InlineImages(Parts(w.value)) # <<>>
            THEN [do |-> "return",
                  value |-> DataUrl(Head(InlineImages(Parts(w.value)))),
                  error |-> caught]
            ELSE [do |-> "throw", value |-> shotClassify(caught),
                  error |-> caught]
       ELSE [do |-> "throw", value |-> w.reason, error |-> caught]

generateStoryShotStepAnyError(c, p, caught, w) ==
  IF p = "generateStoryShot:try"
  THEN IF w.state = "fulfilled"
       THEN IF InlineImages(Parts(w.value)) # <<>>
            THEN [do |-> "return",
                  value |-> DataUrl(Head(InlineImages(Parts(w.value)))),
                  error |-> caught]
            ELSE [do |-> "throw", value |-> Error(ImageGenerationFailed),
                  error |-> caught]
       ELSE IF c.isPro
       THEN [do |-> "attempt", value |-> fallbackParams(c), error |-> w.reason]
       ELSE [do |-> "throw", value |-> shotClassify(w.reason),
             error |-> w.reason]
  ELSE IF w.state = "fulfilled"
       THEN IF InlineImages(Parts(w.value)) # <<>>
            THEN [do |-> "return",
                  value |-> DataUrl(Head(InlineImages(Parts(w.value)))),
                  error |-> caught]
            ELSE [do |-> "throw", value |-> shotClassify(caught),
                  error |-> caught]
       ELSE [do |-> "throw", value |-> w.reason, error |-> caught]

\* generateStoryShot resumed at position p with the settled attempt w;
\* caught is the error bound by the catch clause
generateStoryShotStep(c, p, caught, w) ==
  IF p = "generateStoryShot:try"
  THEN IF w.state = "fulfilled"
       THEN IF InlineImages(Parts(w.value)) # <<>>
            THEN [do |-> "return",
                  value |-> DataUrl(Head(InlineImages(Parts(w.value)))),
                  error |-> caught]
            ELSE [do |-> "throw", value |-> Error(ImageGenerationFailed),
                  error |-> caught]
       ELSE IF c.isPro /\ (isModelAccessError(w.reason)
                            \/ MessageOf(w.reason) = REQUEST_TIMEOUT)
       THEN [do |-> "attempt", value |-> fallbackParams(c), error |-> w.reason]
       ELSE [do |-> "throw", value |-> shotClassify(w.reason),
             error |-> w.reason]
  ELSE IF w.state = "fulfilled"
       THEN IF InlineImages(Parts(w.value)) # <<>>
            THEN [do |-> "return",
                  value |-> DataUrl(Head(InlineImages(Parts(w.value)))),
                  error |-> caught]
            ELSE [do |-> "throw", value |-> shotClassify(caught),
                  error |-> caught]
       ELSE [do |-> "throw", value |-> w.reason, error |-> caught]

(***************************************************************************)
(* Initial values of the application and of the classifier runs            *)
(***************************************************************************)
Null == "<null>"

NullPlan == [name |-> "null"]

\* setError(null)
NoError == <<"<null>">>

\* INITIAL_STATE without analysisProgress, selectedCategory, zoomDirection
\* and isTranslated, which no handler modelled here reads
INITIAL_STATE ==
  [appMode |-> "home",
   appStep |-> "upload",
   originalImage |-> Null,
   plan |-> NullPlan,
   angles |-> <<>>,
   isAnalyzing |-> FALSE,
   isGeneratingAll |-> FALSE,
   generationMode |-> "standard",
   suggestedCategories |-> <<>>,
   isEditing |-> FALSE]

MaxInvocations == 2

MaxClicks == 6

\* what the handlers created by a render capture: a handler invocation and
\* the callbacks it calls keep reading these values after every await
Closure(w) ==
  [state |-> w.state, apiKey |-> w.apiKey, keyStatus |-> w.keyStatus,
   proAccess |-> w.proAccess]

\* a handler invocation: its closure, its position and its local variables
Invocation(op, w) ==
  [op |-> op, pc |-> "start", snap |-> Closure(w),
   trimmedKey |-> "",          \* handleSaveApiKey: const trimmedKey
   id |-> 0,                   \* generateAngleImage: its argument
   queue |-> <<>>,             \* generateAllImages: the angles still to visit
   visited |-> <<>>,           \* the ids generateAngleImage was called with
   isPro |-> FALSE]            \* generateAngleImage: let isPro

\* no invocation in progress
NoInvocation ==
  [Invocation("none",
     [state |-> INITIAL_STATE, apiKey |-> "", keyStatus |-> "none",
      proAccess |-> FALSE])
   EXCEPT !.pc = "done"]

\* the invocation has run to its end: nothing reads its closure any more
Finish(task) == NoInvocation

\* the component as constructed, before the mount effect
AppConstructed ==
  /\ state = INITIAL_STATE
  /\ uiError = NoError
  /\ keyStatus = "none"
  /\ userApiKey = ""
  /\ isKeyModalOpen = FALSE
  /\ proAccess = FALSE
  /\ checkingRef = FALSE
  /\ tasks = [t \in 1..MaxInvocations |-> NoInvocation]
  /\ validatedKey = ""
  /\ clicks = 0

ClassifierIdle ==
  /\ subject = UndefinedValue
  /\ verdict = Pending

(***************************************************************************)
(* State machine of one geminiService call                                 *)
(***************************************************************************)
NoClient == [apiKey |-> Undefined]

Awaiting == {"generateWithFallback", "validateApiKey:pro",
             "validateApiKey:flash", "generateStoryShot:try",
             "generateStoryShot:catch"}

Init ==
  /\ env \in Envs
  /\ call = [op |-> "none"]
  /\ pc = "idle"
  /\ ai = NoClient
  /\ tier = 0
  /\ lastError = UndefinedValue
  /\ error = UndefinedValue
  /\ attempts = <<>>
  /\ result = Pending
  /\ ClassifierIdle
  /\ AppConstructed
  /\ localStorage = Null

\* await withTimeout(client.models.generateContent(params), ms)
Attempt(as, client, params, ms) ==
  attempts' = Append(as, withTimeout(generateContent(client, params), ms))

\* the function completes without a further attempt
Complete(as, completion) ==
  /\ attempts' = as
  /\ pc' = "done"
  /\ result' = completion

\* generateWithFallback(ai, models, requestFactory) up to its first await
EnterGenerateWithFallback(c, client) ==
  /\ call' = c
  /\ ai' = client
  /\ tier' = 1
  /\ pc' = "generateWithFallback"
  /\ Attempt(attempts, client, requestFactory(c, Models(c)[1]),
             REQUEST_TIMEOUT_MS)
  /\ UNCHANGED <<env, lastError, error, result>>

CallGenerateWithFallback ==
  /\ pc = "idle"
  /\ \E models \in TierLists :
       EnterGenerateWithFallback(
         [op |-> "generateWithFallback", models |-> models],
         GoogleGenAI("user-key"))
  /\ UNCHANGED <<classifierVars, appVars>>

\* suggestNarrativeCategories, analyzeImageToStoryboardPlan and
\* updatePromptsWithEdits up to their first await
CallPlan ==
  /\ pc = "idle"
  /\ \E op \in PlanOps, apiKey \in ApiKeyArgs :
       LET c == [op |-> op, apiKey |-> apiKey]
           client == getAI(apiKey, env)
       IN  IF client.state = "thrown"
           THEN /\ call' = c
                /\ Complete(attempts, client)
                /\ UNCHANGED <<env, ai, tier, lastError, error>>
           ELSE EnterGenerateWithFallback(c, client.value)
  /\ UNCHANGED <<classifierVars, appVars>>

\* validateApiKey up to its first await
CallValidateApiKey ==
  /\ pc = "idle"
  /\ \E apiKey \in ApiKeyArgs :
       LET resolvedKey == resolveApiKey(apiKey, env)
       IN  /\ call' = [op |-> "validateApiKey", apiKey |-> apiKey]
           /\ IF ~Truthy(resolvedKey)
              THEN /\ Complete(attempts, Returned(Invalid))
                   /\ UNCHANGED ai
              ELSE /\ ai' = GoogleGenAI(resolvedKey)
                   /\ pc' = "validateApiKey:pro"
                   /\ Attempt(attempts, ai', probeParams(PLAN_MODELS[1]),
                              VALIDATION_TIMEOUT_MS)
                   /\ UNCHANGED result
           /\ UNCHANGED <<env, tier, lastError, error>>
  /\ UNCHANGED <<classifierVars, appVars>>

\* generateStoryShot up to its first await
CallGenerateStoryShot ==
  /\ pc = "idle"
  /\ \E apiKey \in ApiKeyArgs, isPro \in BOOLEAN, config \in ShotConfigs :
       LET c == [op |-> "generateStoryShot", apiKey |-> apiKey,
                 isPro |-> isPro, config |-> config]
           resolvedKey == resolveApiKey(apiKey, env)
       IN  /\ call' = c
           /\ IF ~Truthy(resolvedKey)
              THEN /\ Complete(attempts, Thrown(Error(API_KEY_MISSING)))
                   /\ UNCHANGED ai
              ELSE /\ ai' = GoogleGenAI(resolvedKey)
                   /\ pc' = "generateStoryShot:try"
                   /\ Attempt(attempts, ai', shotParams(c), REQUEST_TIMEOUT_MS)
                   /\ UNCHANGED result
           /\ UNCHANGED <<env, tier, lastError, error>>
  /\ UNCHANGED <<classifierVars, appVars>>

\* The suspended function resumes with the settled withTimeout promise w;
\* as is the list of attempts after the event that settled it.
Resume(as, w) ==
  CASE pc = "generateWithFallback" ->
         LET s == generateWithFallbackStep(Models(call), tier, lastError, w)
         IN  /\ tier' = s.tier
             /\ lastError' = s.lastError
             /\ IF s.do = "attempt"
                THEN /\ Attempt(as, ai, requestFactory(call, s.value),
                                REQUEST_TIMEOUT_MS)
                     /\ UNCHANGED <<pc, result>>
                ELSE Complete(as, planResult(call,
                       IF s.do = "return" THEN Returned(s.value)
                       ELSE Thrown(s.value)))
             /\ UNCHANGED error
    [] pc \in {"validateApiKey:pro", "validateApiKey:flash"} ->
         LET s == validateApiKeyStep(pc, w)
         IN  /\ IF s.do = "attempt"
                THEN /\ Attempt(as, ai, s.value, VALIDATION_TIMEOUT_MS)
                     /\ pc' = "validateApiKey:flash"
                     /\ UNCHANGED result
                ELSE Complete(as,
                       IF s.do = "return" THEN Returned(s.value)
                       ELSE Thrown(s.value))
             /\ UNCHANGED <<tier, lastError, error>>
    [] pc \in {"generateStoryShot:try", "generateStoryShot:catch"} ->
         LET s == generateStoryShotStep(call, pc, error, w)
         IN  /\ error' = s.error
             /\ IF s.do = "attempt"
                THEN /\ Attempt(as, ai, s.value, REQUEST_TIMEOUT_MS)
                     /\ pc' = "generateStoryShot:catch"
                     /\ UNCHANGED result
                ELSE Complete(as,
                       IF s.do = "return" THEN Returned(s.value)
                       ELSE Thrown(s.value))
             /\ UNCHANGED <<tier, lastError>>

\* An event changed attempt i to a; the function awaiting it resumes if
\* the event settled the promise it awaits.
Event(i, a) ==
  LET as == [attempts EXCEPT ![i] = a]
  IN  /\ IF /\ pc \in Awaiting
            /\ i = Len(attempts)
            /\ a.wrapped # attempts[i].wrapped
         THEN Resume(as, a.wrapped)
         ELSE /\ attempts' = as
              /\ UNCHANGED <<pc, tier, lastError, error, result>>
      /\ UNCHANGED <<env, call, ai>>
      /\ UNCHANGED <<classifierVars, appVars>>

\* the service answers request i
ServiceResponds ==
  \E i \in 1..Len(attempts) :
    /\ attempts[i].promise.state = "pending"
    /\ \E response \in Responses(i, attempts[i].request) :
         Event(i, withTimeoutOnValue(attempts[i], response))

\* the service (or the transport) fails request i
ServiceFails ==
  \E i \in 1..Len(attempts) :
    /\ attempts[i].promise.state = "pending"
    /\ \E err \in ServiceErrors :
         Event(i, withTimeoutOnError(attempts[i], err))

\* the deadline of attempt i passes
TimerFires ==
  \E i \in 1..Len(attempts) :
    /\ attempts[i].timer = "armed"
    /\ Event(i, withTimeoutOnTimer(attempts[i]))

Next ==
  \/ CallGenerateWithFallback
  \/ CallPlan
  \/ CallValidateApiKey
  \/ CallGenerateStoryShot
  \/ ServiceResponds
  \/ ServiceFails
  \/ TimerFires

Spec == Init /\ [][Next]_vars

\* the event loop runs every timer callback whose deadline has passed
LiveSpec == Spec /\ WF_vars(TimerFires)

(***************************************************************************)
(* Properties of the tiered fallback executor                              *)
(***************************************************************************)
GwfOps == PlanOps \cup {"generateWithFallback"}

InGwf == call.op \in GwfOps /\ attempts # <<>>

Last == Len(attempts)

\* how the await of attempt i ended for the caller
Outcome(i) == attempts[i].wrapped

Succeeded(i) == Outcome(i).state = "fulfilled"

TimeoutError == Error(REQUEST_TIMEOUT)

\* the failures the specification calls access-class, and the others
AccessClassErrors == {TimeoutError, EntityNotFoundError, PermissionDeniedError}

HardErrors == {QuotaError, MessagelessError}

FailedWith(i, errs) ==
  Outcome(i).state = "rejected" /\ Outcome(i).reason \in errs

\* C1: once the attempt against a tier succeeds, generateWithFallback
\* returns that attempt's result and no later tier is ever attempted.
C1_TierOrder ==
  InGwf =>
    \A i \in 1..Last :
      Succeeded(i) =>
        /\ i = Last
        /\ pc = "done"
        /\ call.op = "generateWithFallback" =>
             result = Returned(Outcome(i).value)

C1_Witness ==
  /\ call.op = "generateWithFallback"
  /\ Len(call.models) = MaxTiers
  /\ Last = 1
  /\ Succeeded(1)
  /\ result.state = "returned"

\* C2: if m1 fails with an access-class error (the timeout or an
\* access-denied message) the next tier is attempted, and if that attempt
\* succeeds the executor returns its result after exactly 2 attempts.
C2_Demotion ==
  (InGwf /\ Len(Models(call)) >= 2 /\ FailedWith(1, AccessClassErrors)) =>
    /\ Last >= 2
    /\ Succeeded(2) =>
         /\ Last = 2
         /\ pc = "done"
         /\ call.op = "generateWithFallback" =>
              result = Returned(Outcome(2).value)

C2_Witness ==
  /\ call.op = "generateWithFallback"
  /\ Len(call.models) = MaxTiers
  /\ Outcome(1) = Rejected(TimeoutError)
  /\ attempts[1].promise.state = "fulfilled"
  /\ Succeeded(2)
  /\ result = Returned(attempts[2].promise.value)

\* C3: if the attempt against a tier fails with an error that is not
\* access-class, the executor fails at once with that same error and no
\* later tier is attempted.
C3_HardStop ==
  InGwf =>
    \A i \in 1..Last :
      FailedWith(i, HardErrors) =>
        /\ i = Last
        /\ pc = "done"
        /\ result = Thrown(Outcome(i).reason)

C3_Witness ==
  /\ call.op = "generateWithFallback"
  /\ Len(call.models) = MaxTiers
  /\ Last = 1
  /\ FailedWith(1, HardErrors)
  /\ result.state = "thrown"

\* C4: if every tier fails with an access-class error, each tier has been
\* attempted exactly once in list order and the executor fails with the
\* error of the last tier.
C4_Exhaustion ==
  (InGwf /\ \A i \in 1..Last : FailedWith(i, AccessClassErrors)) =>
    /\ [i \in 1..Last |-> attempts[i].request.model] = Models(call)
    /\ pc = "done"
    /\ result = Thrown(Outcome(Last).reason)

C4_Witness ==
  /\ call.op = "generateWithFallback"
  /\ Last = MaxTiers
  /\ \A i \in 1..Last : FailedWith(i, AccessClassErrors)
  /\ Outcome(1).reason # Outcome(Last).reason
  /\ result.state = "thrown"

\* C5: the models attempted are a prefix of the tier list in its order, and
\* whenever a further attempt exists every earlier one has already resolved
\* for the caller: at most one attempt is awaited at a time.
C5_Sequential ==
  InGwf =>
    /\ Last <= Len(Models(call))
    /\ \A i \in 1..Last :
         /\ attempts[i].request.model = Models(call)[i]
         /\ i < Last => Outcome(i).state # "pending"
    /\ tier = Last

C5_Witness ==
  /\ call.op = "generateWithFallback"
  /\ Last = MaxTiers
  /\ call.models[1] # call.models[2]
  /\ Outcome(Last).state = "pending"

(***************************************************************************)
(* Properties of withTimeout                                               *)
(***************************************************************************)
\* C6: the promise withTimeout returns is fulfilled with the operation's
\* value if the operation completes while the timer is armed, rejected with
\* the operation's own error if it fails while the timer is armed, and
\* rejected with REQUEST_TIMEOUT if the timer fires first; it is rejected
\* with REQUEST_TIMEOUT only by the timer, never by an error of the service.
C6_WithTimeout ==
  \A i \in 1..Last :
    LET a == attempts[i]
    IN  /\ a.timer = "armed" =>
             a.promise.state = "pending" /\ a.wrapped.state = "pending"
        /\ (a.timer = "cleared" /\ a.promise.state = "fulfilled") =>
             a.wrapped = Fulfilled(a.promise.value)
        /\ (a.timer = "cleared" /\ a.promise.state = "rejected") =>
             a.wrapped = Rejected(a.promise.reason)
        /\ a.timer = "cleared" => a.promise.state # "pending"
        /\ a.timer = "fired" <=> a.wrapped = Rejected(TimeoutError)

C6_Witness ==
  /\ Last = 3
  /\ attempts[1].timer = "fired"
  /\ attempts[1].promise.state = "pending"
  /\ attempts[2].timer = "cleared"
  /\ attempts[2].promise.state = "rejected"
  /\ attempts[3].timer = "cleared"
  /\ attempts[3].promise.state = "fulfilled"

\* C7: once the promise withTimeout returns has settled, nothing changes
\* its outcome, and a completed call keeps its result; the wrapped request
\* stays in flight after a timeout and may complete later.
C7_SettlesOnce ==
  [][ /\ \A i \in 1..Last :
           Outcome(i).state # "pending" => attempts'[i].wrapped = Outcome(i)
      /\ pc = "done" => (pc' = "done" /\ result' = result) ]_vars

C7_Witness ==
  /\ Last >= 2
  /\ Outcome(1) = Rejected(TimeoutError)
  /\ attempts[1].promise.state = "fulfilled"
  /\ Outcome(2).state = "pending"

(***************************************************************************)
(* Bounded execution and credentials                                       *)
(***************************************************************************)
\* C8: provided the timer callbacks run, every invoked orchestrator
\* function eventually completes with a result or an error, whatever the
\* service does, also when it never answers.
C8_Settles ==
  (pc \in Awaiting) ~> (pc = "done" /\ result.state \in {"returned", "thrown"})

C8_Witness ==
  /\ pc = "done"
  /\ Last >= 2
  /\ \A i \in 1..Last : attempts[i].promise.state = "pending"
  /\ result.state \in {"returned", "thrown"}

NoCredential ==
  /\ "apiKey" \in DOMAIN call
  /\ ~Truthy(call.apiKey)
  /\ ~Truthy(env.API_KEY)
  /\ ~Truthy(env.GEMINI_API_KEY)

\* C9: a generation call with no explicit credential and no process-wide
\* default has failed with API_KEY_MISSING without any network attempt.
C9_CredentialMissing ==
  (call.op \in PlanOps \cup {"generateStoryShot"} /\ NoCredential) =>
    /\ pc = "done"
    /\ result = Thrown(Error(API_KEY_MISSING))
    /\ attempts = <<>>

C9_Witness ==
  /\ call.op \in PlanOps
  /\ NoCredential
  /\ result.state = "thrown"

\* C10: validateApiKey with no credential and no process default returns
\* {valid: false, proAvailable: false} without any network attempt.
C10_ValidateNoCredential ==
  (call.op = "validateApiKey" /\ NoCredential) =>
    /\ pc = "done"
    /\ result = Returned([valid |-> FALSE, proAvailable |-> FALSE])
    /\ attempts = <<>>

C10_Witness ==
  /\ call.op = "validateApiKey"
  /\ NoCredential
  /\ result.state = "returned"

(***************************************************************************)
(* Properties of the key validator                                         *)
(***************************************************************************)
InValidate == call.op = "validateApiKey"

\* C11: validateApiKey with a resolvable credential probes the premium text
\* model first, with a one-token cap, and if that probe succeeds it returns
\* {valid: true, proAvailable: true} without probing the standard model.
C11_PremiumProbeFirst ==
  (InValidate /\ ~NoCredential) =>
    /\ Last >= 1
    /\ attempts[1].request.model = PLAN_MODELS[1]
    /\ attempts[1].request.config = [maxOutputTokens |-> 1]
    /\ Succeeded(1) =>
         /\ Last = 1
         /\ pc = "done"
         /\ result = Returned([valid |-> TRUE, proAvailable |-> TRUE])

C11_Witness ==
  /\ InValidate
  /\ ~Truthy(call.apiKey)
  /\ Last = 1
  /\ Succeeded(1)
  /\ result.state = "returned"

\* C12: if the premium probe fails with an access-class error (the
\* validation timeout included) the standard model is probed, and if that
\* probe succeeds the result is {valid: true, proAvailable: false}.
C12_ValidationFallback ==
  (InValidate /\ Last >= 1 /\ FailedWith(1, AccessClassErrors)) =>
    /\ Last = 2
    /\ attempts[2].request.model = PLAN_MODELS[2]
    /\ attempts[2].ms = VALIDATION_TIMEOUT_MS
    /\ Succeeded(2) =>
         /\ pc = "done"
         /\ result = Returned([valid |-> TRUE, proAvailable |-> FALSE])

C12_Witness ==
  /\ InValidate
  /\ Last = 2
  /\ Outcome(1) = Rejected(TimeoutError)
  /\ attempts[1].ms = VALIDATION_TIMEOUT_MS
  /\ Succeeded(2)
  /\ result.state = "returned"

\* C13: a failure of the premium probe that is not access-class, or any
\* failure of the standard probe, yields {valid: false, proAvailable:
\* false}; proAvailable is never true while valid is false.
C13_ValidationInvalid ==
  InValidate =>
    /\ (Last >= 1 /\ FailedWith(1, HardErrors)) =>
         (Last = 1 /\ pc = "done" /\ result = Returned(Invalid))
    /\ (Last >= 2 /\ Outcome(2).state = "rejected") =>
         (pc = "done" /\ result = Returned(Invalid))
    /\ result.state = "returned" =>
         (result.value.proAvailable => result.value.valid)

C13_Witness ==
  /\ InValidate
  /\ Last = 2
  /\ FailedWith(2, AccessClassErrors \cup HardErrors)
  /\ result = Returned(Invalid)

InShot == call.op = "generateStoryShot"

ImageConfig(i) == attempts[i].request.config.imageConfig

\* C15: a premium render whose first attempt fails with an access-class
\* error or a timeout retries exactly once, against the standard image
\* model, without the resolution parameter and under the same deadline;
\* there is never a third attempt.
C15_RenderFallback ==
  InShot =>
    /\ Last <= 2
    /\ (call.isPro /\ Last >= 1 /\ FailedWith(1, AccessClassErrors)) =>
         /\ Last = 2
         /\ Truthy(ImageConfig(1).imageSize)
         /\ attempts[2].request.model = IMAGE_MODELS.fallback
         /\ "imageSize" \notin DOMAIN ImageConfig(2)
         /\ ImageConfig(2).aspectRatio = ImageConfig(1).aspectRatio
         /\ attempts[2].ms = attempts[1].ms
         /\ attempts[2].ms = REQUEST_TIMEOUT_MS

C15_Witness ==
  /\ InShot
  /\ call.isPro
  /\ Last = 2
  /\ Outcome(1) = Rejected(TimeoutError)
  /\ Outcome(2).state # "pending"
  /\ pc = "done"

EntityWasNotFound ==
  <<"e","n","t","i","t","y"," ","w","a","s"," ","n","o","t"," ","f","o","u","n","d">>

\* the classification the specification gives a failed standard attempt
Classification(e) ==
  IF HasMessage(e) /\ includes(e.message, EntityWasNotFound)
  THEN Error(API_KEY_INVALID)
  ELSE e

\* C17: when an attempt against the standard image model fails, as the
\* primary attempt or as the fallback, the call fails with API_KEY_INVALID
\* if the message contains "entity was not found" and with the error of
\* that attempt otherwise.
C17_StandardFailureClassified ==
  InShot =>
    \A i \in 1..Last :
      (attempts[i].request.model = IMAGE_MODELS.fallback
         /\ Outcome(i).state = "rejected") =>
        /\ pc = "done"
        /\ result = Thrown(Classification(Outcome(i).reason))

\* the payload of the first part of the response that carries an image
FirstImage(response) ==
  LET parts == Parts(response)
      k == CHOOSE j \in 1..Len(parts) :
             /\ "inlineData" \in DOMAIN parts[j]
             /\ \A h \in 1..(j - 1) : "inlineData" \notin DOMAIN parts[h]
  IN  parts[k].inlineData.data

HasImage(response) ==
  \E j \in 1..Len(Parts(response)) : "inlineData" \in DOMAIN Parts(response)[j]

\* C18: when an attempt succeeds, as the primary attempt or as the
\* fallback, the call returns the first inline image of the response, and
\* fails with the "image generation failed" error if the response carries
\* no inline image.
C18_ImageOrEmpty ==
  InShot =>
    \A i \in 1..Last :
      Succeeded(i) =>
        /\ pc = "done"
        /\ result = (IF HasImage(Outcome(i).value)
                     THEN Returned(<<"data:image/png;base64,",
                                     FirstImage(Outcome(i).value)>>)
                     ELSE Thrown(Error(ImageGenerationFailed)))

C20_DefaultCategories ==
  call.op = "suggestNarrativeCategories" =>
    \A i \in 1..Last :
      (Succeeded(i) /\ ~Truthy(Outcome(i).value.text)) =>
        /\ i = Last
        /\ pc = "done"
        /\ result = Returned(DEFAULT_CATEGORIES)
        /\ Len(result.value) = 5

C20_Witness ==
  /\ call.op = "suggestNarrativeCategories"
  /\ Last = 2
  /\ Succeeded(2)
  /\ Outcome(2).value.text = Undefined
  /\ result.state = "returned"

(***************************************************************************)
(* Empty answers to the plan calls                                         *)
(***************************************************************************)
\* the errors the plan calls raise for an answer without content
GenerationEmpty == {Error(AIResponseFailed), Error(UpdateFailed)}

\* request i was answered, and the answer carries no text
EmptyAnswer(i) == Succeeded(i) /\ ~Truthy(Outcome(i).value.text)

\* C21 as stated: in each of the three plan calls (category suggestion,
\* storyboard plan, prompt update) an answer without content makes the call
\* fail with the "no content" error, and no further tier is attempted.
C21_EmptyFails ==
  call.op \in PlanOps =>
    \A i \in 1..Last :
      EmptyAnswer(i) =>
        /\ i = Last
        /\ pc = "done"
        /\ result.state = "thrown"
        /\ result.value \in GenerationEmpty

\* C21 as amended: analyzeImageToStoryboardPlan and updatePromptsWithEdits
\* fail with their "no content" error on an answer without content and
\* attempt no further tier; suggestNarrativeCategories attempts no further
\* tier either, but does not fail: it returns a list.
C21_EmptyPlanFails ==
  call.op \in PlanOps =>
    \A i \in 1..Last :
      EmptyAnswer(i) =>
        /\ i = Last
        /\ pc = "done"
        /\ call.op = "analyzeImageToStoryboardPlan" =>
             result = Thrown(Error(AIResponseFailed))
        /\ call.op = "updatePromptsWithEdits" =>
             result = Thrown(Error(UpdateFailed))
        /\ call.op = "suggestNarrativeCategories" =>
             result.state = "returned"

C21_Witness ==
  /\ call.op = "updatePromptsWithEdits"
  /\ Last = 2
  /\ Outcome(2).state = "fulfilled"
  /\ Outcome(2).value.text = ""
  /\ result = Thrown(Error(UpdateFailed))

(***************************************************************************)
(* isModelAccessError applied on its own                                   *)
(***************************************************************************)
MaxWords == 2

\* pieces of error messages; two of them side by side can form a match
Words ==
  { <<"R","E","Q","U","E","S","T","_","T","I","M","E","O","U","T">>,
    <<"r","e","q","u","e","s","t","_","t","i","m","e","o","u","t">>,
    <<"N","o","t">>,
    <<" ","F","o","u","n","d">>,
    <<"P","E","R","M","I","S">>,
    <<"S","I","O","N">>,
    <<"D","e","n","i","e","d">>,
    <<"n","o","t"," ","a","u","t","h","o","r">>,
    <<"i","z","e","d">>,
    <<"q","u","o","t","a">> }

RECURSIVE Join(_)
Join(ws) == IF ws = <<>> THEN <<>> ELSE Head(ws) \o Join(Tail(ws))

Messages == { Join(ws) : ws \in UNION { [1..n -> Words] : n \in 0..MaxWords } }

\* the values isModelAccessError is applied to: errors with a message (also
\* the empty one), an error without a message, and undefined
ClassifierInputs ==
  { Error(m) : m \in Messages } \cup {MessagelessError, UndefinedValue}

NoEnv == [API_KEY |-> Undefined, GEMINI_API_KEY |-> Undefined]

ServiceIdle ==
  /\ env = NoEnv
  /\ call = [op |-> "none"]
  /\ pc = "idle"
  /\ ai = NoClient
  /\ tier = 0
  /\ lastError = UndefinedValue
  /\ error = UndefinedValue
  /\ attempts = <<>>
  /\ result = Pending

ClassifierInit ==
  /\ subject \in ClassifierInputs
  /\ verdict = Pending
  /\ ServiceIdle
  /\ AppConstructed
  /\ localStorage = Null

Classify ==
  /\ verdict = Pending
  /\ verdict' = Returned(isModelAccessError(subject))
  /\ UNCHANGED <<subject, serviceVars, appVars>>

ClassifierNext == Classify

ClassifierSpec == ClassifierInit /\ [][ClassifierNext]_vars

\* the same letter, in either case
SameLetter(a, b) ==
  a = b \/ \E k \in 1..26 : {a, b} = {Upper[k], Lower[k]}

\* sub occurs in s when the case of letters is ignored
ContainsIgnoringCase(s, sub) ==
  \E k \in 0..Len(s) :
    /\ k + Len(sub) <= Len(s)
    /\ \A j \in 1..Len(sub) : SameLetter(s[k + j], sub[j])

AccessWords == {NotFound, Permission, Denied, NotAuthorized}

\* C22: isModelAccessError returns true exactly for an error whose message
\* is REQUEST_TIMEOUT or contains, whatever the case of its letters, one
\* of "not found", "permission", "denied", "not authorized"; an error
\* with an empty or a missing message is not access-class.
C22_Classification ==
  verdict # Pending =>
    verdict.value =
      (/\ HasMessage(subject)
       /\ \/ subject.message = REQUEST_TIMEOUT
          \/ \E w \in AccessWords :
               ContainsIgnoringCase(subject.message, w))

C22_Witness ==
  /\ verdict = Returned(TRUE)
  /\ HasMessage(subject)
  /\ subject.message = <<"N","o","t"," ","F","o","u","n","d">>

(***************************************************************************)
(* What a geminiService call can complete with                             *)
(***************************************************************************)
\* how the await of the i-th request of a call can end
Settlements(i, request) ==
  { Fulfilled(r) : r \in Responses(i, request) }
    \cup { Rejected(e) : e \in ServiceErrors \cup {Error(REQUEST_TIMEOUT)} }

StepCompletion(s) ==
  IF s.do = "return" THEN Returned(s.value) ELSE Thrown(s.value)

\* validateApiKey(key), run to completion
validateApiKeyCompletions(key) ==
  IF ~Truthy(resolveApiKey(key, NoEnv))
  THEN {Returned(Invalid)}
  ELSE UNION {
         LET s == validateApiKeyStep("validateApiKey:pro", w)
         IN  IF s.do = "attempt"
             THEN { StepCompletion(validateApiKeyStep("validateApiKey:flash", v)) :
                      v \in Settlements(2, s.value) }
             ELSE { StepCompletion(s) } :
         w \in Settlements(1, probeParams(PLAN_MODELS[1])) }

RECURSIVE generateWithFallbackCompletions(_, _, _)
\* generateWithFallback of call c from tier t on, run to completion
generateWithFallbackCompletions(c, t, last) ==
  UNION {
    LET s == generateWithFallbackStep(Models(c), t, last, w)
    IN  IF s.do = "attempt"
        THEN generateWithFallbackCompletions(c, s.tier, s.lastError)
        ELSE { StepCompletion(s) } :
    w \in Settlements(t, requestFactory(c, Models(c)[t])) }

\* a plan call c, run to completion
planCompletions(c) ==
  LET client == getAI(c.apiKey, NoEnv)
  IN  IF client.state = "thrown"
      THEN {client}
      ELSE { planResult(c, k) :
               k \in generateWithFallbackCompletions(c, 1, UndefinedValue) }

\* generateStoryShot with the arguments of c, run to completion
generateStoryShotCompletions(c) ==
  IF ~Truthy(resolveApiKey(c.apiKey, NoEnv))
  THEN {Thrown(Error(API_KEY_MISSING))}
  ELSE UNION {
         LET s == generateStoryShotStep(c, "generateStoryShot:try",
                                        UndefinedValue, w)
         IN  IF s.do = "attempt"
             THEN { StepCompletion(generateStoryShotStep(
                      c, "generateStoryShot:catch", s.error, v)) :
                      v \in Settlements(2, s.value) }
             ELSE { StepCompletion(s) } :
         w \in Settlements(1, shotParams(c)) }

(***************************************************************************)
(* App: the messages shown through setError                                *)
(***************************************************************************)
EnterApiKey ==
  <<"A","P","I"," ","K","e","y","U+B97C"," ","U+C785","U+B825","U+D558",
    "U+C138","U+C694",".">>

InvalidApiKey ==
  <<"A","P","I"," ","K","e","y","U+AC00"," ","U+C720","U+D6A8","U+D558",
    "U+C9C0"," ","U+C54A","U+C2B5","U+B2C8","U+B2E4",".">>

UploadTimedOut ==
  <<"U+C694","U+CCAD"," ","U+C2DC","U+AC04","U+C774"," ","U+CD08","U+ACFC",
    "U+B418","U+C5C8","U+C2B5","U+B2C8","U+B2E4","."," ","U+C7A0","U+C2DC",
    " ","U+D6C4"," ","U+B2E4","U+C2DC"," ","U+C2DC","U+B3C4","U+D574"," ",
    "U+C8FC","U+C138","U+C694",".">>

PlanDelayed ==
  <<"U+AE30","U+D68D"," ","U+C0DD","U+C131","U+C774"," ","U+C9C0","U+C5F0",
    "U+B418","U+ACE0"," ","U+C788","U+C2B5","U+B2C8","U+B2E4","."," ",
    "U+B2E4","U+C2DC"," ","U+C2DC","U+B3C4","U+D574"," ","U+C8FC","U+C138",
    "U+C694",".">>

AnalysisFailed ==
  <<"U+BD84","U+C11D"," ","U+C2E4","U+D328">>

UpdateDelayed ==
  <<"U+C5C5","U+B370","U+C774","U+D2B8"," ","U+C694","U+CCAD","U+C774"," ",
    "U+C9C0","U+C5F0","U+B418","U+C5C8","U+C2B5","U+B2C8","U+B2E4","."," ",
    "U+B2E4","U+C2DC"," ","U+C2DC","U+B3C4","U+D574"," ","U+C8FC","U+C138",
    "U+C694",".">>

SwitchedToStandard ==
  <<"P","r","o"," ","U+BAA8","U+B378"," ","U+C811","U+ADFC"," ","U+AD8C",
    "U+D55C","U+C774"," ","U+C5C6","U+C5B4"," ","S","t","a","n","d","a","r",
    "d","U+B85C"," ","U+C804","U+D658","U+D569","U+B2C8","U+B2E4",".">>

ShotTimedOut ==
  <<"U+C774","U+BBF8","U+C9C0"," ","U+C0DD","U+C131"," ","U+C2DC","U+AC04",
    "U+C774"," ","U+CD08","U+ACFC","U+B418","U+C5C8","U+C2B5","U+B2C8",
    "U+B2E4","."," ","U+B2E4","U+C2DC"," ","U+C2DC","U+B3C4","U+D574"," ",
    "U+C8FC","U+C138","U+C694",".">>

ProKeyInvalid ==
  <<"P","r","o"," ","A","P","I"," ","K","e","y","U+AC00"," ","U+C720",
    "U+D6A8","U+D558","U+C9C0"," ","U+C54A","U+AC70","U+B098"," ","U+D55C",
    "U+B3C4","U+B97C"," ","U+CD08","U+ACFC","U+D588","U+C2B5","U+B2C8",
    "U+B2E4","."," ","U+B2E4","U+C2DC"," ","U+C124","U+C815","U+D558",
    "U+AC70","U+B098"," ","S","t","a","n","d","a","r","d"," ","U+BAA8",
    "U+B4DC","U+B97C"," ","U+C0AC","U+C6A9","U+D558","U+C138","U+C694",".">>

ShotFailed ==
  <<"U+C774","U+BBF8","U+C9C0"," ","U+C0DD","U+C131"," ","U+C911"," ",
    "U+C624","U+B958","U+AC00"," ","U+BC1C","U+C0DD","U+D588","U+C2B5",
    "U+B2C8","U+B2E4",".">>

(***************************************************************************)
(* App: state, closures and handler invocations                            *)
(***************************************************************************)
\* the values of the component's state variables
World ==
  [state |-> state, error |-> uiError, keyStatus |-> keyStatus,
   apiKey |-> userApiKey, isKeyModalOpen |-> isKeyModalOpen,
   proAccess |-> proAccess, checkingRef |-> checkingRef,
   localStorage |-> localStorage]

KeyInputs == {"", " ", "key-A", " key-B "}

\* keyInput.trim()
trim(s) ==
  CASE s = " " -> ""
    [] s = " key-B " -> "key-B"
    [] OTHER -> s

Image == "data:image/png;base64,photo"

(***************************************************************************)
(* App: the key handlers                                                   *)
(***************************************************************************)
handleDisconnectKey(w) ==
  [w EXCEPT !.localStorage = Null, !.apiKey = "", !.keyStatus = "none",
            !.error = NoError, !.proAccess = FALSE]

\* handleSaveApiKey up to its await
handleSaveApiKeyEnter(w, task, keyInput) ==
  LET trimmedKey == trim(keyInput)
  IN  IF ~Truthy(trimmedKey)
      THEN [w |-> handleDisconnectKey(w), task |-> Finish(task)]
      ELSE [w |-> [w EXCEPT !.apiKey = trimmedKey,
                            !.localStorage = trimmedKey,
                            !.keyStatus = "checking"],
            task |-> [task EXCEPT !.pc = "validateApiKey",
                                  !.trimmedKey = trimmedKey]]

\* handleSaveApiKey after its await; a rejection would leave the handler
handleSaveApiKeyResume(w, task, completion) ==
  IF completion.state = "thrown"
  THEN [w |-> w, task |-> Finish(task)]
  ELSE LET r == completion.value
       IN  [w |-> [w EXCEPT !.keyStatus = IF r.valid THEN "valid" ELSE "invalid",
                            !.proAccess = r.proAvailable,
                            !.error = IF r.valid THEN NoError ELSE InvalidApiKey],
            task |-> Finish(task)]

\* checkKeyStatus(forceCheck) up to its await
checkKeyStatusEnter(w, snap, forceCheck) ==
  IF w.checkingRef
  THEN [w |-> w, do |-> "return", value |-> FALSE]
  ELSE IF ~Truthy(snap.apiKey)
  THEN [w |-> [w EXCEPT !.keyStatus = "none"], do |-> "return", value |-> FALSE]
  ELSE IF ~forceCheck /\ snap.keyStatus = "valid"
  THEN [w |-> w, do |-> "return", value |-> TRUE]
  ELSE [w |-> [w EXCEPT !.checkingRef = TRUE, !.keyStatus = "checking"],
        do |-> "await", value |-> snap.apiKey]

\* checkKeyStatus after its await: try, catch and finally
checkKeyStatusResume(w, completion) ==
  IF completion.state = "returned"
  THEN [w |-> [w EXCEPT !.keyStatus = IF completion.value.valid
                                      THEN "valid" ELSE "invalid",
                        !.proAccess = completion.value.proAvailable,
                        !.checkingRef = FALSE],
        do |-> "return", value |-> completion.value.valid]
  ELSE [w |-> [w EXCEPT !.keyStatus = "invalid", !.proAccess = FALSE,
                        !.checkingRef = FALSE],
        do |-> "return", value |-> FALSE]

\* ensureValidKey from the value of checkKeyStatus(true) on
ensureValidKeyExit(w, isValid) ==
  [w |-> IF ~isValid
         THEN [w EXCEPT !.error = InvalidApiKey, !.isKeyModalOpen = TRUE]
         ELSE w,
   do |-> "return", value |-> isValid]

\* ensureValidKey up to its await
ensureValidKeyEnter(w, snap) ==
  IF ~Truthy(snap.apiKey)
  THEN [w |-> [w EXCEPT !.keyStatus = "none", !.error = EnterApiKey,
                        !.isKeyModalOpen = TRUE],
        do |-> "return", value |-> FALSE]
  ELSE IF snap.keyStatus = "valid"
  THEN [w |-> w, do |-> "return", value |-> TRUE]
  ELSE LET c == checkKeyStatusEnter(w, snap, TRUE)
       IN  IF c.do = "await" THEN c ELSE ensureValidKeyExit(c.w, c.value)

\* ensureValidKey after its await
ensureValidKeyResume(w, completion) ==
  LET c == checkKeyStatusResume(w, completion)
  IN  ensureValidKeyExit(c.w, c.value)

(***************************************************************************)
(* App: the screen handlers                                                *)
(***************************************************************************)
\* plan.angles.map(...): the scenes of a plan, none rendered yet
InitialAngles(plan) ==
  [k \in 1..Len(plan.angles) |->
     [id |-> k - 1, name |-> plan.angles[k].name, description |-> "",
      prompt |-> plan.angles[k].prompt, promptKo |-> plan.angles[k].promptKo,
      status |-> "pending"]]

\* prev.angles.map(a => a.id === id ? { ...a, status } : a)
SetStatus(angles, id, status) ==
  [k \in 1..Len(angles) |->
     IF angles[k].id = id THEN [angles[k] EXCEPT !.status = status]
     ELSE angles[k]]

\* prev.angles.map(a => a.id === id ? { ...a, status: 'completed', imageUrl } : a)
SetCompleted(angles, id, imageUrl) ==
  [k \in 1..Len(angles) |->
     IF angles[k].id = id
     THEN [status |-> "completed", imageUrl |-> imageUrl] @@ angles[k]
     ELSE angles[k]]

IsTimeout(err) == HasMessage(err) /\ err.message = REQUEST_TIMEOUT

\* handleFileUpload: reader.onload up to its first await
onload(w, snap) ==
  IF snap.state.appMode = "whatsNext"
  THEN [w |-> [w EXCEPT !.state = [@ EXCEPT !.originalImage = Image,
                                            !.isAnalyzing = TRUE]],
        do |-> "ensureValidKey"]
  ELSE [w |-> [w EXCEPT !.state =
                 [@ EXCEPT !.originalImage = Image,
                           !.appStep = IF snap.state.appMode = "zooms"
                                       THEN "modeSetup" ELSE "planning"]],
        do |-> "return"]

onloadAfterKey(w, snap, canUseKey) ==
  IF ~canUseKey
  THEN [w |-> [w EXCEPT !.state.isAnalyzing = FALSE], do |-> "return"]
  ELSE [w |-> w, do |-> "await"]

onloadCatch(w, err) ==
  [w EXCEPT !.error = IF IsTimeout(err) THEN UploadTimedOut ELSE @,
            !.state = [@ EXCEPT !.originalImage = Image,
                                !.appStep = "modeSetup",
                                !.isAnalyzing = FALSE]]

onloadResume(w, completion) ==
  IF completion.state = "returned"
  THEN [w EXCEPT !.state = [@ EXCEPT !.originalImage = Image,
                                     !.suggestedCategories = completion.value,
                                     !.appStep = "modeSetup",
                                     !.isAnalyzing = FALSE]]
  ELSE onloadCatch(w, completion.value)

startAnalysisAfterKey(w, snap, canUseKey) ==
  IF ~canUseKey
  THEN [w |-> w, do |-> "return"]
  ELSE [w |-> [w EXCEPT !.state.isAnalyzing = TRUE, !.error = NoError],
        do |-> "await"]

startAnalysisCatchKeepsBusy(w, err) ==
  [w EXCEPT !.error = IF IsTimeout(err) THEN PlanDelayed
                      ELSE IF HasMessage(err) /\ err.message # <<>>
                      THEN err.message ELSE AnalysisFailed]

startAnalysisCatch(w, err) ==
  [w EXCEPT !.error = IF IsTimeout(err) THEN PlanDelayed
                      ELSE IF HasMessage(err) /\ err.message # <<>>
                      THEN err.message ELSE AnalysisFailed,
            !.state.isAnalyzing = FALSE]

startAnalysisResume(w, completion) ==
  IF completion.state = "returned"
  THEN [w EXCEPT !.state = [@ EXCEPT !.plan = completion.value,
                                     !.angles = InitialAngles(completion.value),
                                     !.isAnalyzing = FALSE,
                                     !.appStep = "result"]]
  ELSE startAnalysisCatch(w, completion.value)

handleSaveEditsAfterKey(w, snap, canUseKey) ==
  IF ~canUseKey
  THEN [w |-> w, do |-> "return"]
  ELSE [w |-> [w EXCEPT !.state = [@ EXCEPT !.isAnalyzing = TRUE,
                                            !.isEditing = FALSE]],
        do |-> "await"]

handleSaveEditsCatch(w, err) ==
  [w EXCEPT !.error = IF IsTimeout(err) THEN UpdateDelayed ELSE UpdateFailed,
            !.state.isAnalyzing = FALSE]

handleSaveEditsResume(w, completion) ==
  IF completion.state = "returned"
  THEN [w EXCEPT !.state = [@ EXCEPT !.plan = completion.value,
                                     !.angles = InitialAngles(completion.value),
                                     !.isAnalyzing = FALSE]]
  ELSE handleSaveEditsCatch(w, completion.value)

\* state.angles.find(a => a.id === id) finds an angle
Found(angles, id) == \E k \in 1..Len(angles) : angles[k].id = id

\* generateAngleImage(task.id) from the value of ensureValidKey() on, up to
\* its await of generateStoryShot
generateAngleImageAfterKey(w, task, canUseKey) ==
  IF ~canUseKey
  THEN [w |-> w, do |-> "return", isPro |-> task.isPro]
  ELSE LET demote == task.isPro /\ ~task.snap.proAccess
           w1 == IF demote
                 THEN [w EXCEPT !.error = SwitchedToStandard,
                                !.state.generationMode = "standard"]
                 ELSE w
           w2 == [w1 EXCEPT !.state.angles = SetStatus(@, task.id, "generating")]
       IN  IF \/ ~Found(task.snap.state.angles, task.id)
              \/ task.snap.state.plan = NullPlan
              \/ task.snap.state.originalImage = Null
           THEN [w |-> w2, do |-> "return", isPro |-> task.isPro /\ ~demote]
           ELSE [w |-> w2, do |-> "await", isPro |-> task.isPro /\ ~demote]

\* the catch clause of generateAngleImage
generateAngleImageCatch(w, id, err) ==
  LET w1 ==
        IF HasMessage(err) /\ err.message = API_KEY_MISSING
        THEN [w EXCEPT !.keyStatus = "none", !.error = EnterApiKey,
                       !.isKeyModalOpen = TRUE]
        ELSE IF IsTimeout(err)
        THEN [w EXCEPT !.error = ShotTimedOut]
        ELSE IF HasMessage(err)
                /\ \/ err.message = API_KEY_INVALID
                   \/ includes(err.message, RequestedEntityWasNotFound)
        THEN [w EXCEPT !.keyStatus = "invalid", !.error = ProKeyInvalid]
        ELSE [w EXCEPT !.error = ShotFailed]
  IN  [w1 EXCEPT !.state.angles = SetStatus(@, id, "error")]

\* generateAngleImage after its await of generateStoryShot
generateAngleImageResume(w, id, completion) ==
  IF completion.state = "returned"
  THEN [w EXCEPT !.state.angles = SetCompleted(@, id, completion.value)]
  ELSE generateAngleImageCatch(w, id, completion.value)

handleBack(s) ==
  IF s.appStep = "result"
  THEN [s EXCEPT !.appStep = IF s.appMode \in {"whatsNext", "zooms"}
                             THEN "modeSetup" ELSE "upload"]
  ELSE IF s.appStep \in {"modeSetup", "planning"}
  THEN [s EXCEPT !.appStep = "upload", !.originalImage = Null]
  ELSE INITIAL_STATE

TargetsAll(angles) == [k \in 1..Len(angles) |-> angles[k].id]

\* state.angles.filter(a => a.status !== 'completed'), as ids
Targets(angles) ==
  LET todo == SelectSeq(angles, LAMBDA a : a.status # "completed")
  IN  [k \in 1..Len(todo) |-> todo[k].id]

\* the arguments of the generateStoryShot call of an invocation
ShotCall(task) ==
  [op |-> "generateStoryShot", apiKey |-> task.snap.apiKey,
   isPro |-> task.isPro,
   config |-> [aspectRatio |-> task.snap.state.plan.aspectRatio,
               resolution |-> task.snap.state.plan.resolution]]

PlanCall(task) == [op |-> task.pc, apiKey |-> task.snap.apiKey]

RenderOps == {"generateAngleImage", "generateAllImages"}

RECURSIVE CallEnsureValidKey(_, _), AfterKey(_, _, _), NextAngle(_, _)

\* await ensureValidKey() in an invocation
CallEnsureValidKey(w, task) ==
  LET k == ensureValidKeyEnter(w, task.snap)
  IN  IF k.do = "await"
      THEN [w |-> k.w, task |-> [task EXCEPT !.pc = "ensureValidKey"]]
      ELSE AfterKey(k.w, task, k.value)

\* the invocation continues with the value of ensureValidKey()
AfterKey(w, task, canUseKey) ==
  IF task.op \in RenderOps
  THEN LET s == generateAngleImageAfterKey(w, task, canUseKey)
       IN  IF s.do = "await"
           THEN [w |-> s.w,
                 task |-> [task EXCEPT !.pc = "generateStoryShot",
                                       !.isPro = s.isPro]]
           ELSE NextAngle(s.w, [task EXCEPT !.isPro = s.isPro])
  ELSE LET s == CASE task.op = "handleFileUpload" ->
                       onloadAfterKey(w, task.snap, canUseKey)
                  [] task.op = "startAnalysis" ->
                       startAnalysisAfterKey(w, task.snap, canUseKey)
                  [] task.op = "handleSaveEdits" ->
                       handleSaveEditsAfterKey(w, task.snap, canUseKey)
           awaited == CASE task.op = "handleFileUpload" ->
                             "suggestNarrativeCategories"
                        [] task.op = "startAnalysis" ->
                             "analyzeImageToStoryboardPlan"
                        [] task.op = "handleSaveEdits" ->
                             "updatePromptsWithEdits"
       IN  [w |-> s.w,
            task |-> IF s.do = "await" THEN [task EXCEPT !.pc = awaited]
                     ELSE Finish(task)]

\* generateAngleImage has returned: the for loop of generateAllImages
\* goes on to the next angle, or the handler ends
NextAngle(w, task) ==
  IF task.queue # <<>>
  THEN CallEnsureValidKey(w,
         [task EXCEPT !.id = Head(task.queue),
                      !.queue = Tail(task.queue),
                      !.visited = Append(@, Head(task.queue)),
                      !.isPro = task.snap.state.generationMode = "pro"])
  ELSE [w |-> IF task.op = "generateAllImages"
              THEN [w EXCEPT !.state.isGeneratingAll = FALSE]
              ELSE w,
        task |-> Finish(task)]

\* the invocation continues with the completion of the call it awaits
ResumeInvocation(w, task, completion) ==
  CASE task.pc = "validateApiKey" ->
         handleSaveApiKeyResume(w, task, completion)
    [] task.pc = "ensureValidKey" ->
         LET k == ensureValidKeyResume(w, completion)
         IN  AfterKey(k.w, task, k.value)
    [] task.pc = "generateStoryShot" ->
         NextAngle(generateAngleImageResume(w, task.id, completion), task)
    [] task.pc = "suggestNarrativeCategories" ->
         [w |-> onloadResume(w, completion), task |-> Finish(task)]
    [] task.pc = "analyzeImageToStoryboardPlan" ->
         [w |-> startAnalysisResume(w, completion), task |-> Finish(task)]
    [] task.pc = "updatePromptsWithEdits" ->
         [w |-> handleSaveEditsResume(w, completion), task |-> Finish(task)]

\* the keys the component can hold
AppKeys == { trim(keyInput) : keyInput \in KeyInputs } \cup {"key-A"}

\* the completions of the calls the handlers make, by their arguments
validateApiKeyTable ==
  [key \in AppKeys |-> validateApiKeyCompletions(key)]

planTable ==
  [c \in [op : PlanOps, apiKey : AppKeys] |-> planCompletions(c)]

generateStoryShotTable ==
  [c \in [op : {"generateStoryShot"}, apiKey : AppKeys, isPro : BOOLEAN,
          config : {[aspectRatio |-> JSONParse(PlanJson).value.aspectRatio,
                     resolution |-> JSONParse(PlanJson).value.resolution]}]
     |-> generateStoryShotCompletions(c)]

\* what the call an invocation awaits can complete with
Completions(task) ==
  CASE task.pc = "validateApiKey" -> validateApiKeyTable[task.trimmedKey]
    [] task.pc = "ensureValidKey" -> validateApiKeyTable[task.snap.apiKey]
    [] task.pc = "generateStoryShot" -> generateStoryShotTable[ShotCall(task)]
    [] OTHER -> planTable[PlanCall(task)]

(***************************************************************************)
(* App: the events                                                         *)
(***************************************************************************)
\* the mount effect has read the saved key
AppInit ==
  /\ ServiceIdle
  /\ ClassifierIdle
  /\ localStorage \in {Null, "key-A"}
  /\ state = INITIAL_STATE
  /\ uiError = NoError
  /\ keyStatus = IF localStorage # Null THEN "saved" ELSE "none"
  /\ userApiKey = IF localStorage # Null THEN localStorage ELSE ""
  /\ isKeyModalOpen = FALSE
  /\ proAccess = FALSE
  /\ checkingRef = FALSE
  /\ tasks = [t \in 1..MaxInvocations |-> NoInvocation]
  /\ validatedKey = ""
  /\ clicks = 0

\* the state updates of an event are committed
Commit(w, ts, validated) ==
  /\ state' = w.state
  /\ uiError' = w.error
  /\ keyStatus' = w.keyStatus
  /\ userApiKey' = w.apiKey
  /\ isKeyModalOpen' = w.isKeyModalOpen
  /\ proAccess' = w.proAccess
  /\ checkingRef' = w.checkingRef
  /\ localStorage' = w.localStorage
  /\ tasks' = ts
  /\ validatedKey' = validated
  /\ UNCHANGED <<serviceVars, classifierVars>>

\* a user event, within the bound on their number
Click == clicks < MaxClicks /\ clicks' = clicks + 1

CanInvoke == \E t \in 1..MaxInvocations : tasks[t].pc = "done"

\* where the record of a new invocation is kept
FreeSlot ==
  CHOOSE t \in 1..MaxInvocations :
    /\ tasks[t].pc = "done"
    /\ \A u \in 1..(t - 1) : tasks[u].pc # "done"

\* a handler was invoked and ran up to its first await, or to its end
Invoke(r) == Commit(r.w, [tasks EXCEPT ![FreeSlot] = r.task], validatedKey)

\* the key dialog covers the page: the page takes clicks when it is closed
PageClickable == ~isKeyModalOpen

ResultScreen == state.appStep = "result" /\ state.plan # NullPlan

HandleOpenKeySelector ==
  /\ Click
  /\ PageClickable
  /\ Commit([World EXCEPT !.isKeyModalOpen = TRUE], tasks, validatedKey)

CloseKeyModal ==
  /\ Click
  /\ isKeyModalOpen
  /\ Commit([World EXCEPT !.isKeyModalOpen = FALSE], tasks, validatedKey)

HandleSaveApiKey ==
  /\ Click
  /\ isKeyModalOpen
  /\ CanInvoke
  /\ \E keyInput \in KeyInputs :
       Invoke(handleSaveApiKeyEnter(
                World, Invocation("handleSaveApiKey", World), keyInput))

HandleDisconnectKey ==
  /\ Click
  /\ isKeyModalOpen
  /\ Commit(handleDisconnectKey(World), tasks, validatedKey)

\* one of the three mode cards of the home screen
PickMode ==
  /\ Click
  /\ PageClickable
  /\ state.appMode = "home"
  /\ \E mode \in {"shorts", "whatsNext", "zooms"} :
       Commit([World EXCEPT !.state = [@ EXCEPT !.appMode = mode,
                                                !.appStep = "upload"]],
              tasks, validatedKey)

\* handleFileUpload with a file: the reader starts reading it
HandleFileUpload ==
  /\ Click
  /\ PageClickable
  /\ state.appStep = "upload"
  /\ state.appMode # "home"
  /\ CanInvoke
  /\ Invoke([w |-> World,
             task |-> [Invocation("handleFileUpload", World)
                         EXCEPT !.pc = "FileReader"]])

\* reader.onload
ReaderLoads ==
  \E t \in 1..MaxInvocations :
    /\ UNCHANGED clicks
    /\ tasks[t].pc = "FileReader"
    /\ LET s == onload(World, tasks[t].snap)
           r == IF s.do = "ensureValidKey"
                THEN CallEnsureValidKey(s.w, tasks[t])
                ELSE [w |-> s.w, task |-> Finish(tasks[t])]
       IN  Commit(r.w, [tasks EXCEPT ![t] = r.task], validatedKey)

HandleBack ==
  /\ Click
  /\ PageClickable
  /\ state.appMode # "home"
  /\ Commit([World EXCEPT !.state = handleBack(state)], tasks, validatedKey)

\* the click on the header logo
ResetToHome ==
  /\ Click
  /\ PageClickable
  /\ Commit([World EXCEPT !.state = INITIAL_STATE], tasks, validatedKey)

\* the "next step" button of the mode setup screen
NextStep ==
  /\ Click
  /\ PageClickable
  /\ state.appStep = "modeSetup"
  /\ Commit([World EXCEPT !.state.appStep = "planning"], tasks, validatedKey)

SetGenerationMode ==
  /\ Click
  /\ PageClickable
  /\ ResultScreen
  /\ \E mode \in {"standard", "pro"} :
       /\ mode # state.generationMode
       /\ Commit([World EXCEPT !.state.generationMode = mode],
                 tasks, validatedKey)

ToggleEditing ==
  /\ Click
  /\ PageClickable
  /\ ResultScreen
  /\ Commit([World EXCEPT !.state.isEditing = ~@], tasks, validatedKey)

StartAnalysis ==
  /\ Click
  /\ PageClickable
  /\ state.appStep = "planning"
  /\ state.originalImage # Null
  /\ ~state.isAnalyzing
  /\ CanInvoke
  /\ Invoke(CallEnsureValidKey(World, Invocation("startAnalysis", World)))

HandleSaveEdits ==
  /\ Click
  /\ PageClickable
  /\ ResultScreen
  /\ state.isEditing
  /\ CanInvoke
  /\ Invoke(CallEnsureValidKey(World, Invocation("handleSaveEdits", World)))

\* the retry button and the render button of one angle
GenerateAngleImage ==
  /\ Click
  /\ PageClickable
  /\ ResultScreen
  /\ CanInvoke
  /\ \E k \in 1..Len(state.angles) :
       /\ \/ state.angles[k].status = "error"
          \/ /\ ~state.isEditing
             /\ state.angles[k].status \notin {"completed", "generating"}
       /\ Invoke(NextAngle(World,
                   [Invocation("generateAngleImage", World)
                      EXCEPT !.queue = <<state.angles[k].id>>]))

GenerateAllImages ==
  /\ Click
  /\ PageClickable
  /\ ResultScreen
  /\ ~state.isGeneratingAll
  /\ ~state.isEditing
  /\ CanInvoke
  /\ Invoke(NextAngle([World EXCEPT !.state.isGeneratingAll = TRUE],
              [Invocation("generateAllImages", World)
                 EXCEPT !.queue = Targets(state.angles)]))

ServiceAwaits ==
  {"validateApiKey", "ensureValidKey", "suggestNarrativeCategories",
   "analyzeImageToStoryboardPlan", "updatePromptsWithEdits",
   "generateStoryShot"}

\* the geminiService call an invocation awaits completes
Settles ==
  \E t \in 1..MaxInvocations :
    /\ UNCHANGED clicks
    /\ tasks[t].pc \in ServiceAwaits
    /\ \E completion \in Completions(tasks[t]) :
         LET r == ResumeInvocation(World, tasks[t], completion)
             validated ==
               /\ tasks[t].pc \in {"validateApiKey", "ensureValidKey"}
               /\ completion.state = "returned"
               /\ completion.value.valid
         IN  Commit(r.w, [tasks EXCEPT ![t] = r.task],
                    IF validated
                    THEN IF tasks[t].pc = "validateApiKey"
                         THEN tasks[t].trimmedKey ELSE tasks[t].snap.apiKey
                    ELSE validatedKey)

AppNext ==
  \/ HandleOpenKeySelector
  \/ CloseKeyModal
  \/ HandleSaveApiKey
  \/ HandleDisconnectKey
  \/ PickMode
  \/ HandleFileUpload
  \/ ReaderLoads
  \/ HandleBack
  \/ ResetToHome
  \/ NextStep
  \/ SetGenerationMode
  \/ ToggleEditing
  \/ StartAnalysis
  \/ HandleSaveEdits
  \/ GenerateAngleImage
  \/ GenerateAllImages
  \/ Settles

AppSpec == AppInit /\ [][AppNext]_vars

\* the storyboard screens on their own: the key comes from localStorage
\* and the key dialog is only ever closed
StudioNext ==
  \/ CloseKeyModal
  \/ PickMode
  \/ HandleFileUpload
  \/ ReaderLoads
  \/ HandleBack
  \/ ResetToHome
  \/ NextStep
  \/ SetGenerationMode
  \/ ToggleEditing
  \/ StartAnalysis
  \/ HandleSaveEdits
  \/ GenerateAngleImage
  \/ GenerateAllImages
  \/ Settles

StudioSpec == AppInit /\ [][StudioNext]_vars

\* an invocation awaits a geminiService call: Settles is enabled
AwaitingService ==
  \E t \in 1..MaxInvocations : tasks[t].pc \in ServiceAwaits

\* the step is a Settles step: no click, and an awaiting invocation moves
Settled ==
  /\ clicks' = clicks
  /\ \E t \in 1..MaxInvocations :
       tasks[t].pc \in ServiceAwaits /\ tasks'[t] # tasks[t]

\* every geminiService call completes, each request being bounded by
\* withTimeout: weak fairness of Settles, written out with the two
\* definitions above in place of ENABLED <<Settles>>_vars and of
\* <<Settles>>_vars
StudioLiveSpec ==
  StudioSpec /\ ([]<>(~AwaitingService) \/ []<><<Settled>>_vars)

(***************************************************************************)
(* C23: a premium render request is sent only while proAccess is true      *)
(***************************************************************************)
\* invocation t sends a generateStoryShot request in this step
SendsShot(t) ==
  /\ tasks'[t].pc = "generateStoryShot"
  /\ \/ tasks[t].pc # "generateStoryShot"
     \/ tasks'[t].visited # tasks[t].visited

\* the scene is rendered on the premium model only with Pro support
PremiumOnlyWithPro(t) == tasks'[t].isPro => proAccess'

\* the handler that saw generationMode 'pro' without Pro support renders on
\* the standard model and switches the mode
DemotedWithoutPro(t) ==
  tasks[t].snap.state.generationMode = "pro" /\ ~tasks[t].snap.proAccess =>
    ~tasks'[t].isPro /\ state'.generationMode = "standard"

\* C23: generateAngleImage invoked with generationMode 'pro' while proAccess
\* is false sends a non-premium request and sets generationMode to
\* 'standard'; no premium request is sent while proAccess is false.
C23_PremiumOnlyWithPro ==
  [][\A t \in 1..MaxInvocations :
       SendsShot(t) => PremiumOnlyWithPro(t) /\ DemotedWithoutPro(t)]_vars

(***************************************************************************)
(* C24: generateAllImages renders one scene at a time                      *)
(***************************************************************************)
RECURSIVE NotCompletedIds(_)
\* the ids of the angles that are not completed, in the order of the angles
NotCompletedIds(angles) ==
  IF angles = <<>> THEN <<>>
  ELSE (IF Head(angles).status = "completed" THEN <<>>
        ELSE <<Head(angles).id>>) \o NotCompletedIds(Tail(angles))

\* a generateAllImages handler is running
GeneratingAll(task) == task.op = "generateAllImages"

\* the angles the running handler has come to and those still ahead are
\* the angles that were not completed when it started, and the request it
\* awaits renders the angle it has come to
VisitsInOrder(task) ==
  /\ task.visited \o task.queue = NotCompletedIds(task.snap.state.angles)
  /\ task.visited # <<>>
  /\ task.id = task.visited[Len(task.visited)]
  /\ task.pc \in {"ensureValidKey", "generateStoryShot"}

\* C24: generateAllImages visits exactly the angles that were not completed
\* when it started, in order, goes on to the next angle only when the
\* previous one has settled, whether it failed or not, and ends by setting
\* isGeneratingAll back to false.
C24_OneSceneAtATime ==
  [][/\ state'.isGeneratingAll =>
          \E t \in 1..MaxInvocations : GeneratingAll(tasks'[t])
     /\ \A t \in 1..MaxInvocations :
          /\ GeneratingAll(tasks'[t]) => VisitsInOrder(tasks'[t])
          /\ GeneratingAll(tasks[t]) /\ GeneratingAll(tasks'[t]) =>
               /\ tasks'[t].snap = tasks[t].snap
               /\ \E n \in 0..Len(tasks[t].queue) :
                    /\ tasks'[t].visited =
                         tasks[t].visited \o SubSeq(tasks[t].queue, 1, n)
                    /\ n > 0 => tasks'[t] # tasks[t] /\ clicks' = clicks
          /\ GeneratingAll(tasks[t]) /\ ~GeneratingAll(tasks'[t]) =>
               /\ tasks[t].queue = <<>>
               /\ clicks' = clicks
               /\ ~state'.isGeneratingAll]_vars

\* a generateAllImages that started with the first scene completed renders
\* the second scene
C24_Witness ==
  \E t \in 1..MaxInvocations :
    /\ GeneratingAll(tasks[t])
    /\ tasks[t].snap.state.angles[1].status = "completed"
    /\ tasks[t].visited = <<1>>
    /\ tasks[t].pc = "generateStoryShot"

(***************************************************************************)
(* C25: the status 'valid' belongs to the key that is stored               *)
(***************************************************************************)
\* C25: keyStatus = 'valid' implies that apiKey is non-empty and that the
\* validation which set the status was made for the apiKey now stored,
\* under any interleaving of handleSaveApiKey, handleDisconnectKey and
\* checkKeyStatus with validations in flight.
C25_ValidMeansCurrentKey ==
  keyStatus = "valid" => userApiKey # "" /\ validatedKey = userApiKey

(***************************************************************************)
(* C26: an angle is 'generating' only while its render is under way        *)
(***************************************************************************)
\* an invocation awaits the render of the angle
Rendering(id) ==
  \E t \in 1..MaxInvocations :
    /\ tasks[t].op \in RenderOps
    /\ tasks[t].pc = "generateStoryShot"
    /\ tasks[t].id = id

\* C26: every angle that a generateAngleImage invocation sets to
\* 'generating' is later set by that invocation to 'completed' or 'error':
\* an angle is 'generating' only while an invocation awaits its render,
\* also on a result screen reached without originalImage or plan in the
\* handler's snapshot.
C26_GeneratingIsRendered ==
  \A k \in 1..Len(state.angles) :
    state.angles[k].status = "generating" => Rendering(state.angles[k].id)

(***************************************************************************)
(* C27: the home screen stays reset                                        *)
(***************************************************************************)
\* C27: after a reset to the home screen the state keeps appMode = 'home',
\* appStep = 'upload', plan = null and originalImage = null until the user
\* picks a mode, even when a category or plan request started before the
\* reset completes afterwards. appMode is 'home' exactly from a reset (or
\* the start) to the next pick of a mode.
C27_HomeStaysReset ==
  state.appMode = "home" =>
    /\ state.appStep = "upload"
    /\ state.plan = NullPlan
    /\ state.originalImage = Null

(***************************************************************************)
(* C28: ensureValidKey refuses a key only for a reason                     *)
(***************************************************************************)
\* ensureValidKey shows the invalid-key error with the key dialog
ReportsKeyUnusable ==
  /\ uiError' = InvalidApiKey
  /\ isKeyModalOpen'
  /\ ~(uiError = InvalidApiKey /\ isKeyModalOpen)

\* a validation started by checkKeyStatus settles
ValidationSettles ==
  \E t \in 1..MaxInvocations :
    tasks[t].pc = "ensureValidKey" /\ tasks'[t] # tasks[t]

\* C28: ensureValidKey returns false, showing the invalid-key error with
\* the key dialog, only when no key is set or a validation of the current
\* key reported it invalid, also when two handlers call it while one
\* validation is in flight; checkingRef is released when the validation
\* settles.
C28_RefusedOnlyWhenInvalid ==
  [][/\ ReportsKeyUnusable =>
          /\ ValidationSettles
          /\ keyStatus' = "invalid"
     /\ ValidationSettles => ~checkingRef']_vars

(***************************************************************************)
(* C29: isAnalyzing is cleared again                                       *)
(***************************************************************************)
\* the plan request of a startAnalysis or handleSaveEdits handler settles
PlanRequestSettles(t) ==
  /\ tasks[t].pc \in {"analyzeImageToStoryboardPlan", "updatePromptsWithEdits"}
  /\ tasks'[t] # tasks[t]

\* the new plan is stored with its scenes, none rendered
PlanInstalled ==
  /\ state'.plan # NullPlan
  /\ state'.angles = InitialAngles(state'.plan)
  /\ uiError' = uiError

\* the failure is shown and the storyboard is as it was
PlanKept ==
  /\ state'.plan = state.plan
  /\ state'.angles = state.angles
  /\ state'.appStep = state.appStep
  /\ uiError' # NoError

\* C29: whenever isAnalyzing is set to true (by startAnalysis,
\* handleSaveEdits or an upload in whatsNext mode) it is eventually set
\* back to false, whether the key check fails or the request succeeds,
\* fails or times out; a failure of startAnalysis or handleSaveEdits leaves
\* plan, angles and appStep unchanged.
C29_AnalysisEnds ==
  /\ state.isAnalyzing ~> ~state.isAnalyzing
  /\ [][\A t \in 1..MaxInvocations :
          PlanRequestSettles(t) =>
            /\ ~state'.isAnalyzing
            /\ PlanInstalled \/ PlanKept]_vars

\* a plan update has failed on the result screen: the plan is still there
\* and the analysis is over
C29_Witness ==
  /\ uiError \in {UpdateDelayed, UpdateFailed}
  /\ state.appStep = "result"
  /\ state.plan # NullPlan
  /\ ~state.isAnalyzing
  /\ \A t \in 1..MaxInvocations : tasks[t] = NoInvocation

====
